---- MODULE Spec2Model ----
(***************************************************************************)
(* Model of src/main.py: a FastAPI application with an in-memory item      *)
(* store, a request-context middleware (request id, Prometheus counter and *)
(* histogram, one JSON log line per request) and five route handlers.      *)
(*                                                                         *)
(* Requests are served by coroutines on one event loop.  A request         *)
(* suspends only at an await: at `await call_next(request)` (main.py:69)   *)
(* before the handler runs and again before dispatch resumes, and when the *)
(* response is sent.  The handler bodies and the lines 71-89 of dispatch   *)
(* contain no await; `running` is the request the event loop is executing  *)
(* in such a non-yielding section (0 when none).                           *)
(*                                                                         *)
(* The latency value (time.perf_counter) is not modelled: the histogram is *)
(* represented by its observation count per label set.                     *)
(***************************************************************************)
EXTENDS Integers, Sequences, FiniteSets, TLC

\* ---- bounds of the model ------------------------------------------------
MaxReq == 3
MaxInFlight == 2

\* ---- inputs ---------------------------------------------------------------
Slots == 1..MaxReq

Paths == {"/health", "/items", "/metrics", "/", "/nope"}

\* A header map or JSON object is a function from its keys; <<>> is the
\* empty one.
NoHeaders == <<>>
RequestHeaders == {NoHeaders, [h \in {"x-request-id"} |-> ""],
                   [h \in {"x-request-id"} |-> "abc"]}

NoBody == <<>>
Bodies == {NoBody, [k \in {"name"} |-> ""], [k \in {"name"} |-> "widget"],
           [k \in {"name"} |-> "gadget"]}

\* The requests a client sends.  Every route, an unknown path and a wrong
\* method are requested without the header; the header variants are sent to
\* three of the routes; a body is only sent with POST /items.
Request(method, url_path, headers, body) ==
    [method |-> method, url_path |-> url_path, headers |-> headers, body |-> body]

Requests ==
    {Request("GET", p, NoHeaders, NoBody) : p \in Paths}
    \cup {Request("POST", "/health", NoHeaders, NoBody)}
    \cup {Request("POST", "/items", NoHeaders, b) : b \in Bodies}
    \cup {Request("GET", p, h, NoBody) :
            p \in {"/health", "/items"}, h \in RequestHeaders}
    \cup {Request("POST", "/items", h, [k \in {"name"} |-> "widget"]) :
            h \in RequestHeaders}

\* ---- state ----------------------------------------------------------------
VARIABLES
    store_items,      \* store._items
    store_next_id,    \* store._next_id
    REQUEST_COUNT,    \* http_requests_total: label set -> value
    REQUEST_LATENCY,  \* http_request_latency_seconds: label set -> number of observations
    log,              \* the lines written by logger.info, oldest first
    uuid_n,           \* number of identifiers uuid.uuid4() has produced
    req,              \* per request: the request, request.state, the locals and the
                      \* position of its dispatch coroutine, and its response
    running,          \* the request executing lines 71-89 of dispatch, or 0
    handled,          \* history: the requests whose handler has run, in the order they ran
    emitter           \* history: for each line of log, the request that wrote it

vars == <<store_items, store_next_id, REQUEST_COUNT, REQUEST_LATENCY, log,
          uuid_n, req, running, handled, emitter>>

\* ---- helpers --------------------------------------------------------------
\* dict.get: the value as a one-element sequence, or <<>> for None.
HeadersGet(headers, key) ==
    IF key \in DOMAIN headers THEN <<headers[key]>> ELSE <<>>

\* uuid.uuid4().hex for the n-th identifier generated: distinct per call.
Uuid4Hex(n) == "uuid-" \o ToString(n)

\* A caller replaying an identifier the service generated earlier.
ReplayRequests(n) ==
    {Request("GET", "/", [h \in {"x-request-id"} |-> Uuid4Hex(k)], NoBody) :
        k \in 1..n}

\* Variant: request.headers.get("x-request-id", uuid.uuid4().hex), which
\* returns a present but empty header as it is.
_request_id_default_arg(headers, n) ==
    LET got == HeadersGet(headers, "x-request-id")
    IN  IF got # <<>> THEN got[1] ELSE Uuid4Hex(n)

\* main.py:33  request.headers.get("x-request-id") or uuid.uuid4().hex
\* (None and "" are both falsy).
_request_id(headers, n) ==
    LET got == HeadersGet(headers, "x-request-id")
    IN  IF got # <<>> /\ got[1] # "" THEN got[1] ELSE Uuid4Hex(n)

\* Whether _request_id called uuid.uuid4().
GeneratesId(headers) ==
    LET got == HeadersGet(headers, "x-request-id")
    IN  ~(got # <<>> /\ got[1] # "")

\* str(response.status_code), main.py:75.
Str(n) == ToString(n)

\* The label set built at main.py:72-76.
LabelsOf(request, response) ==
    <<request.method, request.url_path, Str(response.status_code)>>

\* prometheus_client: .labels(**labels) creates the child series at 0 when it
\* does not exist yet; .inc() / .observe() add one to its value / its count.
WithChild(metric, labels) ==
    IF labels \in DOMAIN metric THEN metric
    ELSE [l \in DOMAIN metric \cup {labels} |->
            IF l = labels THEN 0 ELSE metric[l]]

\* Variant: the series is set to one instead of incremented.
Inc_set(metric, labels) ==
    [WithChild(metric, labels) EXCEPT ![labels] = 1]

Inc(metric, labels) ==
    [WithChild(metric, labels) EXCEPT ![labels] = @ + 1]

Observe(metric, labels) ==
    [WithChild(metric, labels) EXCEPT ![labels] = @ + 1]

\* ---- the item store, main.py:44-56 --------------------------------------
\* ItemOut(id=..., name=...).model_dump()
ItemOut(id, name) == [id |-> id, name |-> name]

\* InMemoryStore.list_items
list_items_store == store_items

\* Variants of add_item: the id taken from the list length; the item put at
\* the front; the list replaced by the new item; the counter not advanced.
add_item_item_len(name) == [id |-> Len(store_items), name |-> name]
add_item_items_front(name) ==
    <<[id |-> store_next_id, name |-> name]>> \o store_items
add_item_items_replace(name) == <<[id |-> store_next_id, name |-> name]>>
add_item_next_id_stuck == store_next_id

\* InMemoryStore.add_item: the item it returns, and the store it leaves.
add_item_item(name) == ItemOut(store_next_id, name)
add_item_items(name) == Append(store_items, add_item_item(name))
add_item_next_id == store_next_id + 1

\* ---- responses ------------------------------------------------------------
Response(status_code, body) ==
    [status_code |-> status_code, body |-> body, headers |-> NoHeaders]

NoResponse == Response(0, <<>>)

\* ItemIn (main.py:36-37): a required field `name: str`; pydantic puts no
\* constraint on the string's length.
ItemInValid(body) == "name" \in DOMAIN body

\* Routes registered at main.py:95, 100, 107, 116, 121.
Routes == {<<"GET", "/health">>, <<"GET", "/items">>, <<"POST", "/items">>,
           <<"GET", "/metrics">>, <<"GET", "/">>}

RoutePaths == {rt[2] : rt \in Routes}

\* Variant: health reports on the store.
health_store(rid) ==
    IF store_items = <<>>
        THEN [status_code |-> 200, body |-> [status |-> "ok", request_id |-> rid],
              headers |-> NoHeaders]
        ELSE [status_code |-> 503, body |-> [status |-> "busy", request_id |-> rid],
              headers |-> NoHeaders]

\* health, main.py:95-97
health(rid) ==
    Response(200, [status |-> "ok", request_id |-> rid])

\* list_items, main.py:100-104
list_items(rid) ==
    LET items == list_items_store
    IN  Response(200, [items |-> items, count |-> Len(items), request_id |-> rid])

\* create_item, main.py:107-113: the response (the store update is in CallNext).
create_item(payload, rid) ==
    Response(201, [item |-> add_item_item(payload.name), request_id |-> rid])

\* metrics, main.py:116-118: generate_latest() serialises the registry.
metrics ==
    Response(200, [http_requests_total |-> REQUEST_COUNT,
                   http_request_latency_seconds_count |-> REQUEST_LATENCY])

\* root, main.py:121-123
root(rid) ==
    Response(200, [message |-> "DevOps demo API", request_id |-> rid])

\* What `await call_next(request)` returns for a request: the router picks
\* the route by path and method (404 when no path matches, 405 when only the
\* method differs), FastAPI validates the body of POST /items against ItemIn
\* (422 when it fails) and then calls the handler.
Creates(request) ==
    /\ <<request.method, request.url_path>> = <<"POST", "/items">>
    /\ ItemInValid(request.body)

HandlerResponse(request, rid) ==
    LET mp == <<request.method, request.url_path>>
    IN  IF request.url_path \notin RoutePaths
            THEN Response(404, [detail |-> "Not Found"])
        ELSE IF mp \notin Routes
            THEN Response(405, [detail |-> "Method Not Allowed"])
        ELSE IF mp = <<"GET", "/health">> THEN health(rid)
        ELSE IF mp = <<"GET", "/items">> THEN list_items(rid)
        ELSE IF mp = <<"GET", "/metrics">> THEN metrics
        ELSE IF mp = <<"GET", "/">> THEN root(rid)
        ELSE IF ItemInValid(request.body)
            THEN create_item(request.body, rid)
        ELSE Response(422, [detail |-> "Field required"])

\* ---- initial state ----------------------------------------------------------
NoRequest == [method |-> "", url_path |-> "", headers |-> NoHeaders, body |-> NoBody]

IdleReq ==
    [pc |-> "idle", request |-> NoRequest, request_id |-> "",
     state_request_id |-> "",
     response |-> NoResponse, raised |-> FALSE, done_before |-> {}]

Init ==
    /\ store_items = <<>>
    /\ store_next_id = 1
    /\ REQUEST_COUNT = <<>>
    /\ REQUEST_LATENCY = <<>>
    /\ log = <<>>
    /\ uuid_n = 0
    /\ req = [r \in Slots |-> IdleReq]
    /\ running = 0
    /\ handled = <<>>
    /\ emitter = <<>>

\* history: the requests whose response has been returned.
DoneSlots == {r \in Slots : req[r].pc = "done"}

InFlight == {r \in Slots : req[r].pc \notin {"idle", "done"}}

\* ---- RequestContextMiddleware.dispatch, main.py:64-89 ---------------------
\* A request arrives; lines 65-67 resolve its id and attach it to the
\* request's state; the coroutine then awaits call_next.
DispatchStart(r, q) ==
    /\ running = 0
    /\ req[r].pc = "idle"
    /\ IF r = 1 THEN TRUE ELSE req[r - 1].pc # "idle"
    /\ Cardinality(InFlight) < MaxInFlight
    /\ LET gen == GeneratesId(q.headers)
           n == IF gen THEN uuid_n + 1 ELSE uuid_n
           request_id == _request_id(q.headers, n)
       IN  /\ uuid_n' = n
           /\ req' = [req EXCEPT ![r] =
                        [pc |-> "call_next", request |-> q,
                         request_id |-> request_id,
                         state_request_id |-> request_id,
                         response |-> NoResponse, raised |-> FALSE,
                         done_before |-> {}]]
    /\ UNCHANGED <<store_items, store_next_id, REQUEST_COUNT, REQUEST_LATENCY,
                   log, running, handled, emitter>>

\* Line 69: the downstream application runs (routing, validation, handler)
\* and call_next returns its response.
CallNext(r) ==
    /\ running = 0
    /\ req[r].pc = "call_next"
    /\ LET q == req[r].request
       IN  /\ req' = [req EXCEPT ![r].pc = "count",
                                 ![r].response =
                                    HandlerResponse(q, req[r].state_request_id),
                                 ![r].done_before = DoneSlots]
           /\ IF Creates(q)
                THEN /\ store_items' = add_item_items(q.body.name)
                     /\ store_next_id' = add_item_next_id
                ELSE UNCHANGED <<store_items, store_next_id>>
    /\ handled' = Append(handled, r)
    /\ UNCHANGED <<REQUEST_COUNT, REQUEST_LATENCY, log, uuid_n, running, emitter>>

\* Line 69 when the downstream application raises: call_next re-raises the
\* exception inside dispatch, which has no try/except/finally, so lines 71-89
\* do not run; the server's error middleware answers 500.
CallNextRaises(r) ==
    /\ running = 0
    /\ req[r].pc = "call_next"
    /\ req' = [req EXCEPT ![r].pc = "done",
                          ![r].response =
                              Response(500, [detail |-> "Internal Server Error"]),
                          ![r].raised = TRUE,
                          ![r].done_before = DoneSlots]
    /\ handled' = Append(handled, r)
    /\ UNCHANGED <<store_items, store_next_id, REQUEST_COUNT, REQUEST_LATENCY,
                   log, uuid_n, running, emitter>>

\* Lines 71-77: dispatch resumes and increments the counter.
Count(r) ==
    /\ running = 0
    /\ req[r].pc = "count"
    /\ running' = r
    /\ REQUEST_COUNT' = Inc(REQUEST_COUNT, LabelsOf(req[r].request, req[r].response))
    /\ req' = [req EXCEPT ![r].pc = "observe"]
    /\ UNCHANGED <<store_items, store_next_id, REQUEST_LATENCY, log, uuid_n,
                   handled, emitter>>

\* Line 78: the latency is observed.
ObserveLatency(r) ==
    /\ running = r
    /\ req[r].pc = "observe"
    /\ REQUEST_LATENCY' =
          Observe(REQUEST_LATENCY, LabelsOf(req[r].request, req[r].response))
    /\ req' = [req EXCEPT ![r].pc = "stamp"]
    /\ UNCHANGED <<store_items, store_next_id, REQUEST_COUNT, log, uuid_n,
                   running, handled, emitter>>

\* Variant: the header is stamped with _request_id(request) evaluated again.
StampedHeadersAgain(headers, rid) ==
    [h \in DOMAIN headers \cup {"x-request-id"} |->
        IF h = "x-request-id"
            THEN _request_id(req[running].request.headers, uuid_n + 1)
            ELSE headers[h]]

\* Line 80: response.headers["x-request-id"] = request_id
StampedHeaders(headers, rid) ==
    [h \in DOMAIN headers \cup {"x-request-id"} |->
        IF h = "x-request-id" THEN rid ELSE headers[h]]

Stamp(r) ==
    /\ running = r
    /\ req[r].pc = "stamp"
    /\ req' = [req EXCEPT ![r].pc = "log",
                          ![r].response.headers =
                              StampedHeaders(@, req[r].request_id)]
    /\ UNCHANGED <<store_items, store_next_id, REQUEST_COUNT, REQUEST_LATENCY,
                   log, uuid_n, running, handled, emitter>>

\* Lines 81-87: the log record (latency_ms is not modelled).
LogRecord(rid, request, response) ==
    [request_id |-> rid, method |-> request.method, path |-> request.url_path,
     status |-> response.status_code]

\* Lines 81-89: the record is logged and the response returned.
LogAndReturn(r) ==
    /\ running = r
    /\ req[r].pc = "log"
    /\ log' = Append(log, LogRecord(req[r].request_id, req[r].request,
                                    req[r].response))
    /\ req' = [req EXCEPT ![r].pc = "done"]
    /\ emitter' = Append(emitter, r)
    /\ running' = 0
    /\ UNCHANGED <<store_items, store_next_id, REQUEST_COUNT, REQUEST_LATENCY,
                   uuid_n, handled>>

Next ==
    \/ \E r \in Slots, q \in Requests \cup ReplayRequests(uuid_n) :
            DispatchStart(r, q)
    \/ \E r \in Slots : CallNext(r)
    \/ \E r \in Slots : Count(r)
    \/ \E r \in Slots : ObserveLatency(r)
    \/ \E r \in Slots : Stamp(r)
    \/ \E r \in Slots : LogAndReturn(r)

Spec == Init /\ [][Next]_vars

\* The same application with a downstream handler that may raise.
NextFault ==
    \/ Next
    \/ \E r \in Slots : CallNextRaises(r)

SpecFault == Init /\ [][NextFault]_vars

\* ---- vocabulary of the properties -----------------------------------------
Started(r) == req[r].pc # "idle"
Handled(r) == req[r].pc \notin {"idle", "call_next"}
Done(r) == req[r].pc = "done"

IsRequest(r, method, url_path) ==
    /\ req[r].request.method = method
    /\ req[r].request.url_path = url_path

\* Position of a handled request in the order the handlers ran.
Pos(r) == CHOOSE i \in 1..Len(handled) : handled[i] = r

HandledBefore(a, b) == Handled(a) /\ Handled(b) /\ Pos(a) < Pos(b)

Created(r) == Handled(r) /\ req[r].response.status_code = 201

Range(f) == {f[i] : i \in DOMAIN f}

\* The items of the 201 responses produced before the handler of g ran, in
\* the order they were produced.
CreatedBefore(g) ==
    LET Is201(r) == req[r].response.status_code = 201
        earlier == SelectSeq(SubSeq(handled, 1, Pos(g) - 1), Is201)
    IN  [i \in 1..Len(earlier) |-> req[earlier[i]].response.body.item]

\* Value of a metric for a label set (an absent series reads as 0).
Value(metric, labels) == IF labels \in DOMAIN metric THEN metric[labels] ELSE 0

SuppliedId(r) ==
    LET got == HeadersGet(req[r].request.headers, "x-request-id")
    IN  got # <<>> /\ got[1] # ""

\* ---- C1 -------------------------------------------------------------------
\* C1: every POST /items carrying a non-empty name N is answered 201 with
\* item.name = N and an item.id greater than every id assigned before (1 when
\* none was), and every GET /items handled later lists that item.
C1_CreateReturnsFreshIdAndIsListed ==
    \A r \in Slots :
        (/\ Handled(r)
         /\ IsRequest(r, "POST", "/items")
         /\ "name" \in DOMAIN req[r].request.body
         /\ req[r].request.body.name # "")
        => /\ req[r].response.status_code = 201
           /\ req[r].response.body.item.name = req[r].request.body.name
           /\ \A q \in Slots :
                (Created(q) /\ HandledBefore(q, r))
                => req[q].response.body.item.id < req[r].response.body.item.id
           /\ (\A q \in Slots : ~(Created(q) /\ HandledBefore(q, r)))
                => req[r].response.body.item.id = 1
           /\ \A g \in Slots :
                (IsRequest(g, "GET", "/items") /\ HandledBefore(r, g))
                => req[r].response.body.item \in Range(req[g].response.body.items)

C1_Witness ==
    \E q, r, g \in Slots :
        /\ IsRequest(q, "POST", "/items") /\ Created(q)
        /\ IsRequest(r, "POST", "/items") /\ Created(r)
        /\ req[r].request.body.name = "gadget"
        /\ IsRequest(g, "GET", "/items") /\ Done(g)
        /\ HandledBefore(q, r) /\ HandledBefore(r, g)

\* ---- C2 -------------------------------------------------------------------
\* C2: a GET /items handled after exactly N responses 201 of POST /items is
\* answered 200 with count = N and the N created items in creation order
\* (an empty list and count 0 when N = 0).
C2_ListReturnsAllCreatedInOrder ==
    \A g \in Slots :
        (Handled(g) /\ IsRequest(g, "GET", "/items"))
        => /\ req[g].response.status_code = 200
           /\ req[g].response.body.count = Len(CreatedBefore(g))
           /\ req[g].response.body.items = CreatedBefore(g)

C2_Witness ==
    \E g \in Slots :
        /\ Done(g) /\ IsRequest(g, "GET", "/items")
        /\ req[g].response.body.count = 2
        /\ req[g].response.body.items[1].name = "gadget"
        /\ req[g].response.body.items[2].name = "widget"

\* ---- C3 -------------------------------------------------------------------
\* C3: a POST /items whose body has no name, or an empty name, is answered
\* 422 and creates no item.
C3_MissingOrEmptyNameRejected ==
    \A r \in Slots :
        (/\ Handled(r)
         /\ IsRequest(r, "POST", "/items")
         /\ \/ "name" \notin DOMAIN req[r].request.body
            \/ req[r].request.body.name = "")
        => /\ req[r].response.status_code = 422
           /\ "item" \notin DOMAIN req[r].response.body
           /\ \A i \in DOMAIN store_items : store_items[i].name # ""

C5_FailureIsCountedAndLogged ==
    \A r \in Slots :
        req[r].raised
        => LET labels == <<req[r].request.method, req[r].request.url_path, "500">>
           IN  /\ Value(REQUEST_COUNT, labels) >= 1
               /\ Value(REQUEST_LATENCY, labels) >= 1
               /\ r \in Range(emitter)

\* ---- C6 -------------------------------------------------------------------
\* The requests among `slots` that were answered under a label set.
WithLabels(slots, labels) ==
    {r \in slots : LabelsOf(req[r].request, req[r].response) = labels}

AllLabels ==
    {LabelsOf(req[r].request, req[r].response) : r \in {q \in Slots : Handled(q)}}
    \cup DOMAIN REQUEST_COUNT \cup DOMAIN REQUEST_LATENCY

\* Whenever the event loop is between coroutine steps, each series of the
\* counter, and each observation count of the histogram, equals the number of
\* requests completed under its label set.
CountsMatchCompleted ==
    running = 0
    => \A labels \in AllLabels :
          /\ Value(REQUEST_COUNT, labels) = Cardinality(WithLabels(DoneSlots, labels))
          /\ Value(REQUEST_LATENCY, labels) = Cardinality(WithLabels(DoneSlots, labels))

\* GET /metrics reports, for every request completed before its handler ran,
\* the series of that request with the number of such requests (so >= 1).
MetricsReportCompleted ==
    \A g \in Slots :
        (Handled(g) /\ IsRequest(g, "GET", "/metrics"))
        => /\ req[g].response.status_code = 200
           /\ \A q \in req[g].done_before :
                LET labels == LabelsOf(req[q].request, req[q].response)
                    total == req[g].response.body.http_requests_total
                IN  /\ labels \in DOMAIN total
                    /\ total[labels] >= 1
                    /\ total[labels]
                         = Cardinality(WithLabels(req[g].done_before, labels))

NoCounterDecreases ==
    /\ \A labels \in DOMAIN REQUEST_COUNT :
          /\ labels \in DOMAIN REQUEST_COUNT'
          /\ REQUEST_COUNT'[labels] >= REQUEST_COUNT[labels]
    /\ \A labels \in DOMAIN REQUEST_LATENCY :
          /\ labels \in DOMAIN REQUEST_LATENCY'
          /\ REQUEST_LATENCY'[labels] >= REQUEST_LATENCY[labels]

StoreWellFormed ==
    /\ \A i, j \in DOMAIN store_items :
          i < j => store_items[i].id < store_items[j].id
    /\ \A i, j \in DOMAIN store_items :
          i # j => store_items[i].id # store_items[j].id
    /\ store_next_id = 1 + Len(store_items)
    /\ \A a, b \in Slots :
          (a # b /\ Created(a) /\ Created(b))
          => req[a].response.body.item.id # req[b].response.body.item.id

\* C7: under every interleaving of requests the stored ids are pairwise
\* distinct and increasing in list order, the counter equals 1 + the number of
\* items and never decreases, and no two 201 responses carry the same id.
C7_StoreIdsUniqueAndIncreasing ==
    /\ []StoreWellFormed
    /\ [][store_next_id' >= store_next_id]_vars

\* Two POST /items in flight together, both past their handler.
C7_Witness ==
    \E a, b \in Slots :
        /\ a # b
        /\ Created(a) /\ req[a].pc = "count"
        /\ Created(b) /\ req[b].pc = "count"
        /\ Len(store_items) = 3

\* ---- C8 -------------------------------------------------------------------
\* C8: GET /health is answered 200 with status "ok" and a request_id field,
\* whatever the store holds and whatever was requested before.
C8_HealthAlwaysOk ==
    \A r \in Slots :
        (Handled(r) /\ IsRequest(r, "GET", "/health"))
        => /\ req[r].response.status_code = 200
           /\ req[r].response.body.status = "ok"
           /\ "request_id" \in DOMAIN req[r].response.body

C8_Witness ==
    \E r \in Slots :
        /\ Done(r) /\ IsRequest(r, "GET", "/health")
        /\ Len(store_items) = 2
        /\ Pos(r) = 3

\* ---- C9 -------------------------------------------------------------------
\* The step is the handler of a POST /items answered 201.
IsCreateStep ==
    \E r \in Slots :
        /\ req[r].pc = "call_next"
        /\ req'[r].pc = "count"
        /\ IsRequest(r, "POST", "/items")
        /\ req'[r].response.status_code = 201

\* C9: the store changes only in the handler of a POST /items answered 201,
\* which appends exactly one item and advances the counter by one; every other
\* step leaves the items and the counter as they were.
C9_StoreChangesOnlyByCreate ==
    [][ IF IsCreateStep
          THEN /\ Len(store_items') = Len(store_items) + 1
               /\ SubSeq(store_items', 1, Len(store_items)) = store_items
               /\ store_next_id' = store_next_id + 1
          ELSE /\ store_items' = store_items
               /\ store_next_id' = store_next_id ]_vars

\* A rejected POST, an unknown route and each read-only route handled after
\* an item was created.
C9_Witness ==
    /\ Len(store_items) = 1
    /\ \E a, b \in Slots :
          /\ Created(a)
          /\ HandledBefore(a, b)
          /\ req[b].response.status_code = 422
          /\ Done(b)
    /\ Len(handled) = 3

\* ---- C10 ------------------------------------------------------------------
\* The request was answered by the handler of /health, /items or /.
ServedByHandler(r) ==
    /\ Handled(r)
    /\ req[r].request.url_path \in {"/health", "/items", "/"}
    /\ req[r].response.status_code \in {200, 201}

LinesOf(r) == {i \in DOMAIN emitter : emitter[i] = r}

\* Body, header and log record of a request carry the identifier resolved for
\* it; one log record per completed request, written after the counter, the
\* histogram and the header were updated.
OwnIdentifierEverywhere ==
    /\ Len(log) = Len(emitter)
    /\ \A r \in Slots :
        /\ ServedByHandler(r)
             => /\ "request_id" \in DOMAIN req[r].response.body
                /\ req[r].response.body.request_id = req[r].request_id
        /\ "x-request-id" \in DOMAIN req[r].response.headers
             => req[r].response.headers["x-request-id"] = req[r].request_id
        /\ Done(r) => "x-request-id" \in DOMAIN req[r].response.headers
        /\ Cardinality(LinesOf(r)) = IF Done(r) THEN 1 ELSE 0
        /\ \A i \in LinesOf(r) :
             /\ log[i].request_id = req[r].request_id
             /\ "x-request-id" \in DOMAIN req[r].response.headers
             /\ Value(REQUEST_COUNT, LabelsOf(req[r].request, req[r].response)) >= 1
             /\ Value(REQUEST_LATENCY, LabelsOf(req[r].request, req[r].response)) >= 1

\* The identifier of a request is fixed once dispatch has started.
IdentifierResolvedOnce ==
    \A r \in Slots :
        Started(r) => /\ req'[r].request_id = req[r].request_id
                      /\ req'[r].state_request_id = req[r].state_request_id

\* C10 as stated: besides the above, the identifier of one request never
\* appears in the body, the header or the log record of another request.
C10_IdentifierNeverShared ==
    /\ OwnIdentifierEverywhere
    /\ \A a, b \in Slots :
          (a # b /\ Started(a) /\ Started(b))
          => /\ ("x-request-id" \in DOMAIN req[b].response.headers
                  => req[b].response.headers["x-request-id"] # req[a].request_id)
             /\ ("request_id" \in DOMAIN req[b].response.body
                  => req[b].response.body.request_id # req[a].request_id)
             /\ \A i \in LinesOf(b) : log[i].request_id # req[a].request_id

\* Two requests carry the same identifier only when the caller of the later
\* one supplied it in x-request-id.
SharedOnlyWhenSupplied ==
    \A a, b \in Slots :
        (a < b /\ Started(b) /\ req[a].request_id = req[b].request_id)
        => SuppliedId(b)

\* C10 (amended): body, header and the single log record of a request carry
\* the identifier resolved at its start, also with several requests in flight;
\* two requests carry the same identifier only when a caller supplied it; the
\* log record is written after the metrics update and the header stamping.
C10_OwnIdentifierCorrelated ==
    /\ [](OwnIdentifierEverywhere /\ SharedOnlyWhenSupplied)
    /\ [][IdentifierResolvedOnce]_vars

\* Two overlapping requests (the second handled first completes last), one
\* with a generated and one with a supplied identifier, both completed.
C10_Witness ==
    \E a, b \in Slots :
        /\ Done(a) /\ Done(b)
        /\ ServedByHandler(a) /\ ServedByHandler(b)
        /\ ~SuppliedId(a) /\ SuppliedId(b)
        /\ HandledBefore(a, b)
        /\ \E i \in LinesOf(b), j \in LinesOf(a) : i < j
        /\ a \notin req[b].done_before

====
